---- MODULE Spec2Model ----
(***************************************************************************)
(* Model of src/app.py: the Flask image uploader.  Three JSON handlers     *)
(* (upload, gallery), a health probe and the index page, over one blob     *)
(* container.  A string is a sequence of characters; a character is a      *)
(* token: the printable ASCII characters stand for themselves (GRAVE for   *)
(* U+0060), and a few named tokens stand for characters beyond them.       *)
(***************************************************************************)
EXTENDS Integers, Sequences, FiniteSets, TLC

VARIABLES clock, container, pc, req, now, blob_name, exc, resp

vars == <<clock, container, pc, req, now, blob_name, exc, resp>>

----------------------------------------------------------------------------
(* Bounds of the model *)

\* the clock ticks at most this many seconds past Epoch
MaxClock == 1
\* no upload is admitted once the container and the uploads in flight reach this
MaxObjects == 2
\* the longest filename RequestSpec draws from NameChars
MaxLen == 3

----------------------------------------------------------------------------
(* Characters and strings *)

\* the printable ASCII characters, code points 32..126, in order
ASCII ==
  << " ", "!", "\"", "#", "$", "%", "&", "'", "(", ")", "*", "+", ",", "-", ".", "/",
     "0", "1", "2", "3", "4", "5", "6", "7", "8", "9", ":", ";", "<", "=", ">", "?",
     "@", "A", "B", "C", "D", "E", "F", "G", "H", "I", "J", "K", "L", "M", "N", "O",
     "P", "Q", "R", "S", "T", "U", "V", "W", "X", "Y", "Z", "[", "\\", "]", "^", "_",
     "GRAVE", "a", "b", "c", "d", "e", "f", "g", "h", "i", "j", "k", "l", "m", "n", "o",
     "p", "q", "r", "s", "t", "u", "v", "w", "x", "y", "z", "{", "|", "}", "~" >>

\* tokens for U+0001, U+0009, U+00E9 (e acute), U+0301 (combining acute), U+65E5
NamedCodes ==
  [SOH |-> 1, TAB |-> 9, EACUTE |-> 233, ACUTE |-> 769, CJK |-> 26085]

AsciiChars == {ASCII[i] : i \in 1..Len(ASCII)}

Chars == AsciiChars \cup DOMAIN NamedCodes

\* the code points of the first n characters of ASCII
RECURSIVE AsciiCodes(_)
AsciiCodes(n) ==
  IF n = 1 THEN ASCII[1] :> 32 ELSE (ASCII[n] :> (31 + n)) @@ AsciiCodes(n - 1)

\* the code point of each character
OrdTable == AsciiCodes(Len(ASCII)) @@ NamedCodes

Ord(c) == OrdTable[c]

Chr(n) == ASCII[n - 31]

Range(s) == {s[i] : i \in 1..Len(s)}

RECURSIVE Flatten(_)
Flatten(ss) == IF ss = <<>> THEN <<>> ELSE Head(ss) \o Flatten(Tail(ss))

\* Python's str < str: by code point, a proper prefix is smaller
StrLess(a, b) ==
  LET n == IF Len(a) < Len(b) THEN Len(a) ELSE Len(b)
      differ == {i \in 1..n : a[i] # b[i]}
  IN IF differ = {}
       THEN Len(a) < Len(b)
       ELSE LET d == CHOOSE i \in differ : \A j \in differ : i <= j
            IN Ord(a[d]) < Ord(b[d])

startswith(s, prefix) ==
  Len(s) >= Len(prefix) /\ SubSeq(s, 1, Len(prefix)) = prefix

\* str.strip(chars) and its two halves
RECURSIVE lstrip(_, _)
lstrip(s, chars) ==
  IF s # <<>> /\ Head(s) \in chars THEN lstrip(Tail(s), chars) ELSE s

RECURSIVE rstrip(_, _)
rstrip(s, chars) ==
  IF s # <<>> /\ s[Len(s)] \in chars
    THEN rstrip(SubSeq(s, 1, Len(s) - 1), chars)
    ELSE s

strip(s, chars) == rstrip(lstrip(s, chars), chars)

UpperCase == {Chr(n) : n \in 65..90}
LowerCase == {Chr(n) : n \in 97..122}
Digits == {Chr(n) : n \in 48..57}

lower(s) ==
  [i \in 1..Len(s) |-> IF s[i] \in UpperCase THEN Chr(Ord(s[i]) + 32) ELSE s[i]]

HexDigits ==
  <<"0", "1", "2", "3", "4", "5", "6", "7", "8", "9", "A", "B", "C", "D", "E", "F">>

----------------------------------------------------------------------------
(* urllib.parse.quote, with its default safe="/" *)

\* the UTF-8 bytes of a code point below 2^16
utf8(n) ==
  IF n < 128 THEN <<n>>
  ELSE IF n < 2048 THEN <<192 + (n \div 64), 128 + (n % 64)>>
  ELSE <<224 + (n \div 4096), 128 + ((n \div 64) % 64), 128 + (n % 64)>>

QuoteSafe == UpperCase \cup LowerCase \cup Digits \cup {"_", ".", "-", "~", "/"}

quote_char(c) ==
  IF c \in QuoteSafe
    THEN <<c>>
    ELSE LET bytes == utf8(Ord(c))
         IN Flatten([i \in 1..Len(bytes) |->
                       <<"%", HexDigits[(bytes[i] \div 16) + 1],
                              HexDigits[(bytes[i] % 16) + 1]>>])

quote(s) == Flatten([i \in 1..Len(s) |-> quote_char(s[i])])

----------------------------------------------------------------------------
(* werkzeug.utils.secure_filename, as app.py calls it, on a POSIX host     *)
(* (os.sep is "/", os.path.altsep is None, os.name is not "nt")            *)

\* unicodedata.normalize("NFKD", c) of the characters of the model
nfkd_char(c) == IF c = "EACUTE" THEN <<"e", "ACUTE">> ELSE <<c>>

normalize_nfkd(s) == Flatten([i \in 1..Len(s) |-> nfkd_char(s[i])])

\* s.encode("ascii", "ignore").decode("ascii")
IsAscii(c) == Ord(c) < 128
ascii_ignore(s) == SelectSeq(s, IsAscii)

\* s.replace(os.sep, " ")
replace_sep(s) == [i \in 1..Len(s) |-> IF s[i] = "/" THEN " " ELSE s[i]]

\* the characters str.split() takes for whitespace, among those of the model
Whitespace == {" ", "TAB"}

\* the length of the longest whitespace-free prefix
RECURSIVE WordLen(_)
WordLen(s) ==
  IF s = <<>> \/ Head(s) \in Whitespace THEN 0 ELSE 1 + WordLen(Tail(s))

\* s.split(): the maximal whitespace-free runs
RECURSIVE split(_)
split(s) ==
  LET t == lstrip(s, Whitespace)
      n == WordLen(t)
  IN IF t = <<>> THEN <<>>
     ELSE <<SubSeq(t, 1, n)>> \o split(SubSeq(t, n + 1, Len(t)))

\* sep.join(words)
RECURSIVE join(_, _)
join(sep, words) ==
  IF words = <<>> THEN <<>>
  ELSE IF Len(words) = 1 THEN Head(words)
  ELSE Head(words) \o sep \o join(sep, Tail(words))

\* the characters _filename_ascii_strip_re, [^A-Za-z0-9_.-], keeps
FilenameSafe == UpperCase \cup LowerCase \cup Digits \cup {"_", ".", "-"}

IsFilenameSafe(c) == c \in FilenameSafe
ascii_strip(s) == SelectSeq(s, IsFilenameSafe)

secure_filename(filename) ==
  strip(
    ascii_strip(
      join(<<"_">>, split(replace_sep(ascii_ignore(normalize_nfkd(filename)))))),
    {".", "_"})

----------------------------------------------------------------------------
(* datetime.utcnow().strftime("%Y%m%dT%H%M%S") *)

\* the UTC time at clock = 0: 2024-01-01T23:59:58
Epoch == [year |-> 2024, month |-> 1, day |-> 1, second |-> 86398]

\* datetime.utcnow() when the clock shows t seconds past Epoch (t below a month)
utcnow(t) ==
  LET s == Epoch.second + t
  IN [year |-> Epoch.year, month |-> Epoch.month, day |-> Epoch.day + (s \div 86400),
      hour |-> (s % 86400) \div 3600, minute |-> (s % 3600) \div 60,
      second |-> s % 60]

Digit(d) == HexDigits[d + 1]
Pad2(n) == <<Digit((n \div 10) % 10), Digit(n % 10)>>
Pad4(n) == Pad2(n \div 100) \o Pad2(n % 100)

strftime(dt) ==
  Pad4(dt.year) \o Pad2(dt.month) \o Pad2(dt.day) \o <<"T">>
    \o Pad2(dt.hour) \o Pad2(dt.minute) \o Pad2(dt.second)

\* a faulty variant: the filename as the client sent it
timestamped_name_raw(filename, dt) == strftime(dt) \o <<"-">> \o filename

timestamped_name(filename, dt) ==
  LET ts == strftime(dt)
      safe == secure_filename(filename)
  IN ts \o <<"-">> \o safe

----------------------------------------------------------------------------
(* Configuration and the requests clients send *)

MAX_CONTENT_LENGTH == 10 * 1024 * 1024

\* STORAGE_ACCOUNT_URL and IMAGES_CONTAINER, as the environment sets them
STORAGE_ACCOUNT_URL == <<"h", "t", "t", "p", "s", ":", "/", "/", "s">>
IMAGES_CONTAINER == <<"i", "m", "g">>

container_url == STORAGE_ACCOUNT_URL \o <<"/">> \o IMAGES_CONTAINER

Workers == {"w1", "w2"}

\* the Content-Type headers of the file parts
ImagePng == <<"i", "m", "a", "g", "e", "/", "p", "n", "g">>
ImagePngUpper == <<"I", "M", "A", "G", "E", "/", "P", "N", "G">>
ImageGifParam == <<"i", "m", "a", "g", "e", "/", "g", "i", "f", ";", " ", "q", "=", "1">>
TextPlain == <<"t", "e", "x", "t", "/", "p", "l", "a", "i", "n">>
ContentTypes == {ImagePng, ImagePngUpper, ImageGifParam, TextPlain, <<>>}

\* the filenames of the file parts: "", "a.jpg", "../a.jpg", "../", two of U+65E5,
\* and U+00E9 U+0009 "b" U+0001 ".png"
FileA == <<"a", ".", "j", "p", "g">>
FileADotDot == <<".", ".", "/">> \o FileA
FileDotDot == <<".", ".", "/">>
FileCjk == <<"CJK", "CJK">>
FileAccent == <<"EACUTE", "TAB", "b", "SOH", ".", "p", "n", "g">>
UploadFilenames == {<<>>, FileA, FileADotDot, FileDotDot, FileCjk, FileAccent}

\* every filename of at most n characters of NameChars
NameChars == {"a", ".", "/", "\\", " ", "SOH", "EACUTE", "CJK"}
Filenames(n) == UNION {[1..k -> NameChars] : k \in 0..n}

Payloads == {"bytes1", "bytes2"}

FileStorages(filenames, types) ==
  [filename : filenames, content_type : types, stream : Payloads]

\* a multipart form with one file part, under the field "file" or under "photo"
UploadRequests(filenames, types) ==
  {[kind |-> "upload", content_length |-> n, files |-> fs] :
     n \in {MAX_CONTENT_LENGTH, MAX_CONTENT_LENGTH + 1},
     fs \in [file : FileStorages(filenames, types)]
              \cup [photo : FileStorages(filenames, types)]}

Upload(n, field, filename, type, payload) ==
  [kind |-> "upload", content_length |-> n,
   files |-> (field :> [filename |-> filename, content_type |-> type, stream |-> payload])]

\* the requests RequestSpec draws: every combination of the parts above, and every
\* short filename
WideUploads ==
  UploadRequests(UploadFilenames, ContentTypes)
    \cup {Upload(MAX_CONTENT_LENGTH, "file", fn, ImagePng, "bytes1") : fn \in Filenames(MaxLen)}

\* the requests two workers race on
CoreUploads ==
  { Upload(MAX_CONTENT_LENGTH + 1, "file", FileA, ImagePng, "bytes1"),
    Upload(MAX_CONTENT_LENGTH, "file", FileA, TextPlain, "bytes1"),
    Upload(MAX_CONTENT_LENGTH, "file", FileA, ImagePng, "bytes1"),
    Upload(MAX_CONTENT_LENGTH, "file", FileADotDot, ImageGifParam, "bytes2"),
    Upload(MAX_CONTENT_LENGTH, "file", FileAccent, ImagePngUpper, "bytes1") }

\* the messages of the exceptions the storage client raises
GatewayErrors == {"Connection timed out"}

\* str() of werkzeug's RequestEntityTooLarge
RequestEntityTooLarge ==
  "413 Request Entity Too Large: The data value transmitted exceeds the capacity limit."

NoRequest == [kind |-> "none"]
NoResponse == [status |-> 0]
NoException == "None"

\* the blobs the container holds before the application starts
ExistingBlobs ==
  (<<"o", "l", "d", " ", "1", ".", "p", "n", "g">> :>
       [content_type |-> ImagePng, data |-> "bytes0"])
  @@ (<<"2", "0", "2", "4", "0", "1", "0", "1", "T", "0", "0", "0", "0", "0", "0",
        "-", "a", ".", "j", "p", "g">> :>
       [content_type |-> ImagePng, data |-> "bytes0"])

EmptyContainer == [n \in {} |-> [content_type |-> <<>>, data |-> "bytes0"]]

----------------------------------------------------------------------------
(* Helpers of app.py *)

\* FileStorage.mimetype: the content type without parameters, lowercased
RECURSIVE before_semicolon(_)
before_semicolon(s) ==
  IF s = <<>> \/ Head(s) = ";" THEN <<>> ELSE <<Head(s)>> \o before_semicolon(Tail(s))

mimetype(file) == lower(strip(before_semicolon(file.content_type), Whitespace))

\* a faulty variant: any type will do
is_image_any(file) == TRUE

is_image(file) == startswith(mimetype(file), <<"i", "m", "a", "g", "e", "/">>)

\* jsonify(...), status
json_response(body, status) == [status |-> status, json |-> body]

\* a faulty variant: the type check answers without a status
unsupported_type_no_status == json_response([ok |-> FALSE, error |-> "Only image/* allowed"], 200)

unsupported_type == json_response([ok |-> FALSE, error |-> "Only image/* allowed"], 415)

\* request.files raises RequestEntityTooLarge when the body is over the limit
request_entity_too_large(r) == r.content_length > MAX_CONTENT_LENGTH

\* a faulty variant: the filename is checked after the type
upload_validate_type_first(r) ==
  IF "file" \notin DOMAIN r.files
    THEN json_response([ok |-> FALSE, error |-> "Missing file"], 400)
  ELSE IF ~is_image(r.files.file) THEN unsupported_type
  ELSE IF r.files.file.filename = <<>>
    THEN json_response([ok |-> FALSE, error |-> "Empty filename"], 400)
  ELSE NoResponse

\* the checks of upload; NoResponse when all pass
upload_validate(r) ==
  IF "file" \notin DOMAIN r.files
    THEN json_response([ok |-> FALSE, error |-> "Missing file"], 400)
  ELSE IF r.files.file.filename = <<>>
    THEN json_response([ok |-> FALSE, error |-> "Empty filename"], 400)
  ELSE IF ~is_image(r.files.file) THEN unsupported_type
  ELSE NoResponse

\* a faulty variant: the exception's message is withheld
upload_except_generic(e) == json_response([ok |-> FALSE, error |-> "Upload failed"], 500)

\* the except branch of upload
upload_except(e) == json_response([ok |-> FALSE, error |-> e], 500)

\* the except branch of gallery
gallery_except(e) == json_response([ok |-> FALSE, error |-> e], 500)

\* f"{container_url}/{quote(name)}", as upload builds it
blob_url(name) == container_url \o <<"/">> \o quote(name)

\* f"{container_url}/{quote(b.name)}", as gallery builds it
listed_url(name) == container_url \o <<"/">> \o quote(name)

\* a faulty variant: the declared header is stored as sent
content_settings_declared(file) == file.content_type

\* ContentSettings(content_type=f.mimetype)
content_settings(file) == mimetype(file)

\* a faulty variant: upload_blob without overwrite leaves an existing blob alone
upload_blob_keep(c, name, file) ==
  IF name \in DOMAIN c THEN c
  ELSE [n \in DOMAIN c \cup {name} |->
          IF n = name
            THEN [content_type |-> content_settings(file), data |-> file.stream]
            ELSE c[n]]

\* blob_client.upload_blob(f.stream, overwrite=True, content_settings=...)
upload_blob(c, name, file) ==
  [n \in DOMAIN c \cup {name} |->
     IF n = name
       THEN [content_type |-> content_settings(file), data |-> file.stream]
       ELSE c[n]]

\* cc.list_blobs(): the names, which the service lists in ascending order
RECURSIVE Ascending(_)
Ascending(S) ==
  IF S = {} THEN <<>>
  ELSE LET m == CHOOSE x \in S : \A y \in S : ~StrLess(y, x)
       IN <<m>> \o Ascending(S \ {m})

list_blobs(c) == Ascending(DOMAIN c)

Without(s, i) == SubSeq(s, 1, i - 1) \o SubSeq(s, i + 1, Len(s))

\* list.sort(reverse=True)
RECURSIVE sort_reverse(_)
sort_reverse(s) ==
  IF s = <<>> THEN <<>>
  ELSE LET i == CHOOSE i \in 1..Len(s) : \A j \in 1..Len(s) : ~StrLess(s[i], s[j])
       IN <<s[i]>> \o sort_reverse(Without(s, i))

\* a faulty variant: the list as the service returns it
gallery_urls_unsorted(c) ==
  LET names == list_blobs(c)
  IN [i \in 1..Len(names) |-> listed_url(names[i])]

\* the list gallery returns
gallery_urls(c) ==
  LET names == list_blobs(c)
  IN sort_reverse([i \in 1..Len(names) |-> listed_url(names[i])])

----------------------------------------------------------------------------
(* The state machine *)

InFlight == {w \in Workers : pc[w] # "idle"}

\* the model admits an upload while the container has room for it
Room ==
  Cardinality(DOMAIN container \ DOMAIN ExistingBlobs) + Cardinality(InFlight)
    < MaxObjects

Init ==
  /\ clock = 0
  /\ container \in {EmptyContainer, ExistingBlobs}
  /\ pc = [w \in Workers |-> "idle"]
  /\ req = [w \in Workers |-> NoRequest]
  /\ now = [w \in Workers |-> 0]
  /\ blob_name = [w \in Workers |-> <<>>]
  /\ exc = [w \in Workers |-> NoException]
  /\ resp = [w \in Workers |-> NoResponse]

\* a worker takes a request: the locals of the last one are gone
Begin(w, r) ==
  /\ pc[w] = "idle"
  /\ req' = [req EXCEPT ![w] = r]
  /\ now' = [now EXCEPT ![w] = 0]
  /\ blob_name' = [blob_name EXCEPT ![w] = <<>>]

\* upload, up to the last check
UploadValidate(w, r) ==
  /\ Begin(w, r)
  /\ IF request_entity_too_large(r)
       THEN /\ exc' = [exc EXCEPT ![w] = RequestEntityTooLarge]
            /\ resp' = [resp EXCEPT ![w] = upload_except(RequestEntityTooLarge)]
            /\ pc' = pc
       ELSE /\ exc' = [exc EXCEPT ![w] = NoException]
            /\ resp' = [resp EXCEPT ![w] = upload_validate(r)]
            /\ IF upload_validate(r) = NoResponse
                 THEN Room /\ pc' = [pc EXCEPT ![w] = "name"]
                 ELSE pc' = pc
  /\ UNCHANGED <<clock, container>>

\* blob_name = timestamped_name(f.filename)
UploadName(w) ==
  /\ pc[w] = "name"
  /\ now' = [now EXCEPT ![w] = clock]
  /\ blob_name' =
       [blob_name EXCEPT ![w] = timestamped_name(req[w].files.file.filename, utcnow(clock))]
  /\ pc' = [pc EXCEPT ![w] = "write"]
  /\ UNCHANGED <<clock, container, req, exc, resp>>

\* upload_blob and the response; a failed call may have written the blob or not
UploadWrite(w) ==
  /\ pc[w] = "write"
  /\ pc' = [pc EXCEPT ![w] = "idle"]
  /\ \/ /\ container' = upload_blob(container, blob_name[w], req[w].files.file)
        /\ resp' = [resp EXCEPT ![w] =
                      json_response([ok |-> TRUE, url |-> blob_url(blob_name[w])], 200)]
        /\ exc' = exc
     \/ \E e \in GatewayErrors, written \in BOOLEAN :
          /\ container' = IF written
                            THEN upload_blob(container, blob_name[w], req[w].files.file)
                            ELSE container
          /\ exc' = [exc EXCEPT ![w] = e]
          /\ resp' = [resp EXCEPT ![w] = upload_except(e)]
  /\ UNCHANGED <<clock, req, now, blob_name>>

Gallery(w) ==
  /\ Begin(w, [kind |-> "gallery"])
  /\ \/ /\ resp' = [resp EXCEPT ![w] =
                      json_response([ok |-> TRUE, gallery |-> gallery_urls(container)], 200)]
        /\ exc' = [exc EXCEPT ![w] = NoException]
     \/ \E e \in GatewayErrors :
          /\ exc' = [exc EXCEPT ![w] = e]
          /\ resp' = [resp EXCEPT ![w] = gallery_except(e)]
  /\ UNCHANGED <<clock, container, pc>>

Health(w) ==
  /\ Begin(w, [kind |-> "health"])
  /\ resp' = [resp EXCEPT ![w] = [status |-> 200, text |-> "OK"]]
  /\ exc' = [exc EXCEPT ![w] = NoException]
  /\ UNCHANGED <<clock, container, pc>>

Index(w) ==
  /\ Begin(w, [kind |-> "index"])
  /\ resp' = [resp EXCEPT ![w] = [status |-> 200, html |-> "Lanternfly Uploader"]]
  /\ exc' = [exc EXCEPT ![w] = NoException]
  /\ UNCHANGED <<clock, container, pc>>

\* a second passes
Tick ==
  /\ clock < MaxClock
  /\ clock' = clock + 1
  /\ UNCHANGED <<container, pc, req, now, blob_name, exc, resp>>

\* the workers of the server, each on one request at a time
Next ==
  \/ \E w \in Workers, r \in CoreUploads : UploadValidate(w, r)
  \/ \E w \in Workers : UploadName(w)
  \/ \E w \in Workers : UploadWrite(w)
  \/ \E w \in Workers : Gallery(w)
  \/ \E w \in Workers : Health(w)
  \/ \E w \in Workers : Index(w)
  \/ Tick

Spec == Init /\ [][Next]_vars

\* one worker takes one request of the wide ones, up to the name of the blob
RequestNext ==
  \/ \E r \in WideUploads : req["w1"] = NoRequest /\ UploadValidate("w1", r)
  \/ UploadName("w1")
  \/ Tick

RequestSpec == Init /\ [][RequestNext]_vars

----------------------------------------------------------------------------
(* What the claims read off a state *)

IsUpload(w) == req[w].kind = "upload"
IsJson(w) == "json" \in DOMAIN resp[w]
Answered(w) == resp[w] # NoResponse
HasFile(w) == "file" \in DOMAIN req[w].files
WithinLimit(w) == req[w].content_length <= MAX_CONTENT_LENGTH

\* the response is the JSON failure with this status and message
Fails(w, status, error) ==
  resp[w] = [status |-> status, json |-> [ok |-> FALSE, error |-> error]]

ImagePrefix == <<"i", "m", "a", "g", "e", "/">>

\* the media type of a Content-Type header: the part before ";", trimmed, lowercased
MediaType(header) == lower(strip(before_semicolon(header), {" ", "TAB"}))

\* path separators and control characters
Separators == {"/", "\\"}
IsControl(c) == Ord(c) < 32 \/ Ord(c) = 127

\* the number the decimal digits s[i..j] write
RECURSIVE Decimal(_, _, _)
Decimal(s, i, j) ==
  IF j < i THEN 0 ELSE 10 * Decimal(s, i, j - 1) + (Ord(s[j]) - 48)

----------------------------------------------------------------------------
(* C1: an upload whose body is over 10 MiB is answered 413 with ok=false, and
   nothing is written for it.  The code answers 500: the limit is enforced
   when upload reads request.files, inside its try block. *)
C1_OversizeAnswered413 ==
  \A w \in Workers :
    (IsUpload(w) /\ ~WithinLimit(w) /\ Answered(w)) =>
      /\ IsJson(w)
      /\ resp[w].status = 413
      /\ resp[w].json.ok = FALSE
      /\ pc[w] = "idle"
      /\ blob_name[w] = <<>>

\* what the code does keep of C1: an oversized upload never reaches the write
OversizeWritesNothing ==
  \A w \in Workers :
    (IsUpload(w) /\ ~WithinLimit(w)) =>
      Fails(w, 500, RequestEntityTooLarge) /\ pc[w] = "idle" /\ blob_name[w] = <<>>

(* C2, as claimed: for a request within the size limit the first failing
   check decides the status: no "file" field gives 400; else an empty
   filename gives 400; else a declared content type that does not start with
   "image/" gives 415 with ok=false. *)
C2_DeclaredTypeDecides ==
  \A w \in Workers :
    (IsUpload(w) /\ WithinLimit(w)) =>
      IF ~HasFile(w) THEN Fails(w, 400, "Missing file")
      ELSE IF req[w].files.file.filename = <<>> THEN Fails(w, 400, "Empty filename")
      ELSE IF ~startswith(req[w].files.file.content_type, ImagePrefix)
        THEN Fails(w, 415, "Only image/* allowed")
      ELSE TRUE

(* C2, amended: for a request within the size limit the first failing check
   decides the status: no "file" field gives 400 "Missing file"; else an
   empty filename gives 400 "Empty filename"; else a media type (the declared
   content type before ";", trimmed and lowercased) that does not start with
   "image/" gives 415 with ok=false; else the request passes the checks. *)
C2_FirstFailingCheckDecides ==
  \A w \in Workers :
    (IsUpload(w) /\ WithinLimit(w)) =>
      IF ~HasFile(w) THEN Fails(w, 400, "Missing file")
      ELSE IF req[w].files.file.filename = <<>> THEN Fails(w, 400, "Empty filename")
      ELSE IF ~startswith(MediaType(req[w].files.file.content_type), ImagePrefix)
        THEN Fails(w, 415, "Only image/* allowed")
      ELSE ~Answered(w) \/ resp[w].status \notin {400, 415}

\* an empty filename with a type that is no image is answered for the filename
C2_Witness ==
  /\ IsUpload("w1") /\ WithinLimit("w1") /\ HasFile("w1")
  /\ req["w1"].files.file.filename = <<>>
  /\ req["w1"].files.file.content_type = TextPlain
  /\ Fails("w1", 400, "Empty filename")

(* C6: the name of the blob holds no path separator and no control
   character, whatever the filename holds, and reads
   <YYYYMMDDTHHMMSS of the UTC time>-<characters of [A-Za-z0-9_.-]>. *)
C6_NameIsSafeAndStamped ==
  \A w \in Workers :
    pc[w] = "write" =>
      LET name == blob_name[w]
          dt == utcnow(now[w])
      IN /\ \A i \in 1..Len(name) : name[i] \notin Separators /\ ~IsControl(name[i])
         /\ Len(name) >= 16
         /\ \A i \in (1..15) \ {9} : name[i] \in Digits
         /\ name[9] = "T"
         /\ name[16] = "-"
         /\ Decimal(name, 1, 4) = dt.year
         /\ Decimal(name, 5, 6) = dt.month
         /\ Decimal(name, 7, 8) = dt.day
         /\ Decimal(name, 10, 11) = dt.hour
         /\ Decimal(name, 12, 13) = dt.minute
         /\ Decimal(name, 14, 15) = dt.second
         /\ \A i \in 17..Len(name) : name[i] \in FilenameSafe

\* a filename with a separator and a control character has been named
C6_Witness ==
  /\ pc["w1"] = "write"
  /\ \E i \in 1..Len(req["w1"].files.file.filename) :
       req["w1"].files.file.filename[i] \in Separators
  /\ \E i \in 1..Len(req["w1"].files.file.filename) :
       IsControl(req["w1"].files.file.filename[i])
  /\ Len(blob_name["w1"]) > 16

(* C8: the part of the name after "<timestamp>-" is never empty: a filename
   that sanitizes to nothing gets a fallback token.  The code has no
   fallback: "../" is named "<timestamp>-". *)
C8_SanitizedPartNonEmpty ==
  \A w \in Workers : pc[w] = "write" => Len(blob_name[w]) > 16

----------------------------------------------------------------------------
(* What the claims read off a step *)

\* w answers a gallery request with success in this step
GalleryAnswers(w) ==
  /\ req'[w].kind = "gallery"
  /\ req'[w] # req[w] \/ resp'[w] # resp[w]
  /\ "json" \in DOMAIN resp'[w]
  /\ resp'[w].status = 200

\* w ends an upload in this step, after the call of upload_blob
UploadEnds(w) == pc[w] = "write" /\ pc'[w] = "idle"

\* the blob the upload of w is to store
BlobOf(w) ==
  [content_type |-> MediaType(req[w].files.file.content_type),
   data |-> req[w].files.file.stream]

UrlOf(name) == container_url \o <<"/">> \o quote(name)

\* the request of w passes the checks of upload
PassesChecks(w) ==
  /\ IsUpload(w) /\ WithinLimit(w) /\ HasFile(w)
  /\ req[w].files.file.filename # <<>>
  /\ startswith(MediaType(req[w].files.file.content_type), ImagePrefix)

\* a name that starts with a timestamp, and the date and time it writes
Stamped(n) ==
  /\ Len(n) >= 16
  /\ \A i \in (1..15) \ {9} : n[i] \in Digits
  /\ n[9] = "T"
  /\ n[16] = "-"

StampDate(n) == Decimal(n, 1, 8)
StampTime(n) == Decimal(n, 10, 15)

Later(n1, n2) ==
  \/ StampDate(n1) > StampDate(n2)
  \/ StampDate(n1) = StampDate(n2) /\ StampTime(n1) > StampTime(n2)

Pos(g, u) == CHOOSE i \in 1..Len(g) : g[i] = u

Count(g, u) == Cardinality({i \in 1..Len(g) : g[i] = u})

(* C3: a successful gallery response lists one URL for each blob of the
   container, each element is >= the next, and the URL of a blob with a later
   timestamp prefix comes before the URL of one with an earlier prefix; of two
   names made at different seconds, the one made later has the later prefix
   (read when either is made). *)
C3_GalleryListsDescending ==
  [][ /\ \A w \in Workers :
           GalleryAnswers(w) =>
             LET g == resp'[w].json.gallery
                 names == DOMAIN container
                 \* of each stamped name: its date, its time, the place of its URL
                 rows == {<<StampDate(n), StampTime(n), Pos(g, UrlOf(n))>> :
                            n \in {m \in names : Stamped(m)}}
             IN /\ Len(g) = Cardinality(names)
                /\ Range(g) = {UrlOf(n) : n \in names}
                /\ \A i \in 1..(Len(g) - 1) : ~StrLess(g[i], g[i + 1])
                /\ \A r1, r2 \in rows :
                     (r1[1] > r2[1] \/ (r1[1] = r2[1] /\ r1[2] > r2[2])) => r1[3] < r2[3]
      /\ \A w1, w2 \in Workers :
           ( /\ blob_name'[w1] # blob_name[w1]
             /\ blob_name'[w1] # <<>> /\ blob_name'[w2] # <<>>
             /\ now'[w1] # now'[w2] ) =>
             (Later(blob_name'[w1], blob_name'[w2]) <=> now'[w1] > now'[w2])
    ]_vars

\* a gallery response lists an old blob with a space in its name and two stamped blobs
C3_Witness ==
  \E w \in Workers :
    /\ req[w].kind = "gallery" /\ IsJson(w) /\ resp[w].status = 200
    /\ \E i, j, k \in 1..Len(resp[w].json.gallery) :
         LET g == resp[w].json.gallery
         IN /\ i < j
            /\ g[i] = UrlOf(timestamped_name(FileA, utcnow(1)))
            /\ g[j] = UrlOf(timestamped_name(FileA, utcnow(0)))
            /\ "%" \in Range(g[k])

(* C4: a JSON response of upload or gallery carries a boolean ok that is true
   exactly when the status is 2xx; with ok=true it carries url (upload) or
   gallery (gallery), with ok=false an error string. *)
C4_EnvelopeMatchesStatus ==
  \A w \in Workers :
    (req[w].kind \in {"upload", "gallery"} /\ Answered(w) /\ IsJson(w)) =>
      LET body == resp[w].json
      IN /\ "ok" \in DOMAIN body
         /\ body.ok \in BOOLEAN
         /\ body.ok <=> resp[w].status \in 200..299
         /\ body.ok =>
              DOMAIN body = {"ok", IF IsUpload(w) THEN "url" ELSE "gallery"}
         /\ ~body.ok => DOMAIN body = {"ok", "error"} /\ body.error \in STRING

\* one worker holds a success of upload, the other a rejection
C4_Witness ==
  \E w1, w2 \in Workers :
    /\ IsUpload(w1) /\ IsJson(w1) /\ resp[w1].status = 200
    /\ IsUpload(w2) /\ IsJson(w2) /\ resp[w2].status = 415

(* C5: when the storage client raises during the write of upload or the
   listing of gallery, the response is 500 with ok=false and the message of
   the exception as error. *)
C5_StorageFailureAnswered500 ==
  \A w \in Workers :
    exc[w] \in GatewayErrors =>
      /\ pc[w] = "idle"
      /\ Fails(w, 500, exc[w])

\* the storage failed under an upload and under a gallery
C5_Witness ==
  \E w1, w2 \in Workers :
    /\ IsUpload(w1) /\ exc[w1] \in GatewayErrors
    /\ req[w2].kind = "gallery" /\ exc[w2] \in GatewayErrors

(* C7: no step removes a name from the container; a step that changes the
   container ends an upload that passed every check; a step that answers a
   rejected upload (400, 415), a gallery, a health or an index request leaves
   the container as it was. *)
C7_OnlyAcceptedUploadsWrite ==
  [][ /\ DOMAIN container \subseteq DOMAIN container'
      /\ container' # container =>
           \E w \in Workers : UploadEnds(w) /\ PassesChecks(w)
      /\ \A w \in Workers :
           ( /\ req'[w] # req[w] \/ resp'[w] # resp[w]
             /\ \/ req'[w].kind \in {"gallery", "health", "index"}
                \/ resp'[w].status \in {400, 415} )
             => container' = container
    ]_vars

\* the container holds a blob an upload wrote, and a rejection has been answered
C7_Witness ==
  /\ \E n \in DOMAIN container : n \notin DOMAIN ExistingBlobs
  /\ \E w \in Workers : IsUpload(w) /\ resp[w].status = 415

(* C9, as claimed: a successful upload writes one blob, under the generated
   name, with the declared content type and the bytes sent. *)
C9_WriteKeepsDeclaredType ==
  [][ \A w \in Workers :
        (UploadEnds(w) /\ resp'[w].status = 200) =>
          container' =
            (blob_name[w] :> [content_type |-> req[w].files.file.content_type,
                              data |-> req[w].files.file.stream]) @@ container
    ]_vars

(* C9, amended: a successful upload writes one blob, under the generated
   name, with the media type of the declared content type (its part before
   ";", trimmed and lowercased) and the bytes sent, and answers the URL
   <container URL>/<percent-encoded name>; every later successful gallery
   response lists the URL a successful upload answered. *)
C9_UploadWritesOnceAndIsListed ==
  [][ \A w \in Workers :
        /\ (UploadEnds(w) /\ resp'[w].status = 200) =>
             /\ container' = (blob_name[w] :> BlobOf(w)) @@ container
             /\ resp'[w] =
                  [status |-> 200, json |-> [ok |-> TRUE, url |-> UrlOf(blob_name[w])]]
        /\ GalleryAnswers(w) =>
             \A u \in Workers :
               (IsUpload(u) /\ resp[u].status = 200) =>
                 Count(resp'[w].json.gallery, resp[u].json.url) = 1
    ]_vars

\* a gallery response lists the URL the other worker's upload answered, and the type
\* stored for it is not the header as sent
C9_Witness ==
  \E w, u \in Workers :
    /\ req[w].kind = "gallery" /\ IsJson(w) /\ resp[w].status = 200
    /\ IsUpload(u) /\ resp[u].status = 200
    /\ resp[u].json.url \in Range(resp[w].json.gallery)
    /\ blob_name[u] \in DOMAIN container
    /\ container[blob_name[u]].content_type # req[u].files.file.content_type

\* two uploads named in the same second from filenames that sanitize alike
Collide(w1, w2) ==
  /\ w1 # w2
  /\ IsUpload(w1) /\ IsUpload(w2)
  /\ blob_name[w1] # <<>> /\ blob_name[w2] # <<>>
  /\ now[w1] = now[w2]
  /\ secure_filename(req[w1].files.file.filename)
       = secure_filename(req[w2].files.file.filename)

(* C10: two uploads named in the same second from filenames that sanitize
   alike get the same name; when both answer 200 they answer the same URL,
   the container holds under that name the blob of one of the two, and the
   gallery lists the URL once.  Every write leaves under its name the blob
   of its own upload and leaves the blobs under every other name as they
   were.  (Every state is the start of some step, so the first conjunct is
   read in every reachable state.) *)
C10_SameNameLastWriteWins ==
  [][ /\ \A w1, w2 \in Workers :
           Collide(w1, w2) =>
             /\ blob_name[w1] = blob_name[w2]
             /\ (resp[w1].status = 200 /\ resp[w2].status = 200) =>
                  /\ resp[w1].json.url = resp[w2].json.url
                  /\ blob_name[w1] \in DOMAIN container
                  /\ container[blob_name[w1]] \in {BlobOf(w1), BlobOf(w2)}
                  /\ Count(gallery_urls(container), resp[w1].json.url) = 1
      /\ \A w \in Workers :
           (UploadEnds(w) /\ (resp'[w].status = 200 \/ container' # container)) =>
             /\ blob_name[w] \in DOMAIN container'
             /\ container'[blob_name[w]] = BlobOf(w)
             /\ \A n \in DOMAIN container \ {blob_name[w]} : container'[n] = container[n]
    ]_vars

\* both workers answered 200 for the same name, with different bytes and types
C10_Witness ==
  /\ Collide("w1", "w2")
  /\ resp["w1"].status = 200 /\ resp["w2"].status = 200
  /\ BlobOf("w1") # BlobOf("w2")
  /\ req["w1"].files.file.filename # req["w2"].files.file.filename
  /\ container[blob_name["w1"]] = BlobOf("w1")

====
